---- MODULE Spec2Model ----
(***************************************************************************)
(* Single-slot handshake channel (abstractions/queues/channel.rs).         *)
(*                                                                         *)
(* One producer task owns the Sender / FutureSender, one consumer task     *)
(* owns the Receiver.  The two tasks run concurrently: every handler is    *)
(* split at its accesses to the shared Inner (the Slot operations and the  *)
(* receiver_gone flag), each of which is one atomic step.  A Slot          *)
(* operation runs the callbacks it fires inside the same step, as the      *)
(* Slot calls them synchronously on the calling thread.                    *)
(***************************************************************************)
EXTENDS Integers, Sequences, FiniteSets, TLC

\* Number of Sender::send calls the producer makes at most.
MaxSends == 2

\* Option<Token>::None for on_full_token / on_empty_token.
NoToken == 0

\* Values of Result<T, E> the producer may pass to send.
Payloads ==
    { [k |-> "Ok", v |-> 1], [k |-> "Ok", v |-> 2], [k |-> "Err", v |-> 1] }

\* Option<Result<T, E>>::None (FutureSender.data after take()).
NoData == [k |-> "None", v |-> 0]

\* enum Message<T> { Data(T), Done }, and the empty cell Slot::new(None).
Data(d) == [tag |-> "Data", data |-> d]
Done == [tag |-> "Done", data |-> NoData]
Empty == [tag |-> "Empty", data |-> NoData]

\* Async::Ready(None) as recorded in the receiver's result history.
Exhausted == [k |-> "Exhausted", v |-> 0]

VARIABLES
    slot,            \* Inner.slot: the message in the cell, or Empty
    callbacks,       \* Inner.slot: the registered, un-fired callbacks
    receiver_gone,   \* Inner.receiver_gone
    on_full_token,   \* Receiver.on_full_token
    rpc,             \* position of the consumer task in Receiver::poll / drop
    rtask,           \* TRUE once the consumer task has been unparked
    received,        \* non-pending results of Receiver::poll, in order
    lastR,           \* result of the last completed Receiver::poll
    sender,          \* where the Sender handle is: caller, future, poll, dropped
    fut,             \* the FutureSender: alive, data, on_empty_token (+ orig)
    data,            \* local `data` of FutureSender::poll
    ppc,             \* position of the producer task
    stask,           \* TRUE once the producer task has been unparked
    resolved,        \* payloads whose Send Operation resolved Ok, in order
    failed,          \* SendErrors returned: <<original payload, payload carried>>
    lastS,           \* result of the last poll of the current FutureSender
    panicked,        \* panic message raised so far, or "none"
    nsends,          \* number of Sender::send calls made
    cancelled,       \* what the last cancel issued by a poll found
    done_writes      \* how each Message::Done was written: at_once or deferred

vars == << slot, callbacks, receiver_gone, on_full_token, rpc, rtask, received,
           lastR, sender, fut, data, ppc, stask, resolved, failed, lastS,
           panicked, nsends, cancelled, done_writes >>

-----------------------------------------------------------------------------
(* The Slot (mailbox) and the task handles, seen as one record             *)
(* [cell, cbs, rtask, stask, panicked, dones] that a Slot operation         *)
(* transforms.                                                             *)

World == [cell |-> slot, cbs |-> callbacks, rtask |-> rtask, stask |-> stask,
          panicked |-> panicked, dones |-> done_writes]

\* Tokens that are still known to somebody: registered or retained.
UsedTokens(w) == { c.token : c \in w.cbs } \cup { on_full_token, fut.on_empty_token }

\* A token distinct from every token registered or retained.
FreshToken(w) ==
    CHOOSE t \in 1..(Cardinality(UsedTokens(w)) + 1) : t \notin UsedTokens(w)

RECURSIVE Call(_, _), RunCallbacks(_, _), try_produce(_, _), try_consume(_)

\* Run the callbacks of S, a set of callbacks just taken out of the slot.
RunCallbacks(w, S) ==
    IF S = {} THEN w
    ELSE LET c == CHOOSE x \in S : \A y \in S : x.token <= y.token
         IN RunCallbacks(Call(w, c), S \ {c})

\* Slot::try_produce: fails, handing the message back, if the cell is occupied;
\* otherwise fills the cell and fires the on_full callbacks.
try_produce(w, msg) ==
    IF w.cell.tag # "Empty"
    THEN [w |-> w, ok |-> FALSE, back |-> msg]
    ELSE LET fired == { c \in w.cbs : c.kind = "full" }
             w1 == [w EXCEPT !.cell = msg, !.cbs = w.cbs \ fired]
         IN [w |-> RunCallbacks(w1, fired), ok |-> TRUE, back |-> Empty]

\* Slot::try_consume: fails if the cell is empty; otherwise takes the message
\* and fires the on_empty callbacks.
try_consume(w) ==
    IF w.cell.tag = "Empty"
    THEN [w |-> w, ok |-> FALSE, msg |-> Empty]
    ELSE LET fired == { c \in w.cbs : c.kind = "empty" }
             w1 == [w EXCEPT !.cell = Empty, !.cbs = w.cbs \ fired]
         IN [w |-> RunCallbacks(w1, fired), ok |-> TRUE, msg |-> w.cell]

\* The four closures channel.rs registers on the slot.  A closure the slot
\* calls at registration, without storing it, comes with NoToken.
Call(w, c) ==
    CASE c.act = "unpark_receiver" -> [w EXCEPT !.rtask = TRUE]
      [] c.act = "unpark_sender" -> [w EXCEPT !.stask = TRUE]
      [] c.act = "drain" -> try_consume(w).w
      [] c.act = "done" ->
            LET r == try_produce(w, Done)
            IN IF r.ok
               THEN [r.w EXCEPT !.dones =
                        Append(@, IF c.token = NoToken THEN "at_once"
                                  ELSE "deferred")]
               ELSE [r.w EXCEPT !.panicked = "unwrap on None"]

\* Slot::on_full: call f now if the cell is occupied, else register it.
on_full(w, act) ==
    LET t == FreshToken(w)
        c == [token |-> t, kind |-> "full", act |-> act]
    IN IF w.cell.tag # "Empty"
       THEN [w |-> Call(w, [c EXCEPT !.token = NoToken]), token |-> t]
       ELSE [w |-> [w EXCEPT !.cbs = w.cbs \cup {c}], token |-> t]

\* Slot::on_empty: call f now if the cell is empty, else register it.
on_empty(w, act) ==
    LET t == FreshToken(w)
        c == [token |-> t, kind |-> "empty", act |-> act]
    IN IF w.cell.tag = "Empty"
       THEN [w |-> Call(w, [c EXCEPT !.token = NoToken]), token |-> t]
       ELSE [w |-> [w EXCEPT !.cbs = w.cbs \cup {c}], token |-> t]

\* Slot::cancel that forgets the token's identity: it unregisters whatever is
\* registered.
cancel_any(w, token) ==
    IF token = NoToken THEN w ELSE [w EXCEPT !.cbs = {}]

\* Slot::cancel: unregister the callback of this token if it has not fired.
cancel(w, token) == [w EXCEPT !.cbs = { c \in w.cbs : c.token # token }]

\* Write a World back into the variables it was read from.
Store(w) ==
    /\ slot' = w.cell
    /\ callbacks' = w.cbs
    /\ rtask' = w.rtask
    /\ stask' = w.stask
    /\ panicked' = w.panicked
    /\ done_writes' = w.dones

Registered(token) == \E c \in callbacks : c.token = token

\* What a cancel of this retained Option<Token> finds: no token, a callback
\* still registered, or a callback that has already fired.
TokenState(token) ==
    IF token = NoToken THEN "none"
    ELSE IF Registered(token) THEN "live" ELSE "fired"

-----------------------------------------------------------------------------
\* create(): empty slot, receiver_gone false, no token retained.
Init ==
    /\ slot = Empty
    /\ callbacks = {}
    /\ receiver_gone = FALSE
    /\ on_full_token = NoToken
    /\ rpc = "idle"
    /\ rtask = TRUE
    /\ received = << >>
    /\ lastR = "none"
    /\ sender = "caller"
    /\ fut = [alive |-> FALSE, data |-> NoData, on_empty_token |-> NoToken,
              orig |-> NoData]
    /\ data = NoData
    /\ ppc = "idle"
    /\ stask = TRUE
    /\ resolved = << >>
    /\ failed = << >>
    /\ lastS = "none"
    /\ panicked = "none"
    /\ nsends = 0
    /\ cancelled = [by |-> "none", token |-> "none"]
    /\ done_writes = << >>

-----------------------------------------------------------------------------
(* Consumer task *)

\* Receiver::poll that forgets the retained token without cancelling it.
Receiver_poll_cancel_skipped ==
    /\ rpc = "idle"
    /\ Store([World EXCEPT !.rtask = FALSE])
    /\ cancelled' = [by |-> "receiver", token |-> TokenState(on_full_token)]
    /\ on_full_token' = NoToken
    /\ rpc' = "consume"
    /\ UNCHANGED << receiver_gone, received, lastR, sender, fut, data, ppc,
                    resolved, failed, lastS, nsends >>

\* Receiver::poll, lines 96-98: cancel the retained token.
Receiver_poll_cancel ==
    /\ rpc = "idle"
    /\ Store([cancel(World, on_full_token) EXCEPT !.rtask = FALSE])
    /\ cancelled' = [by |-> "receiver", token |-> TokenState(on_full_token)]
    /\ on_full_token' = NoToken
    /\ rpc' = "consume"
    /\ UNCHANGED << receiver_gone, received, lastR, sender, fut, data, ppc,
                    resolved, failed, lastS, nsends >>

\* The match of Receiver::poll with an error taken for the end of the stream.
PollResult_err_ends(msg) ==
    IF msg.tag = "Done" \/ msg.data.k = "Err" THEN Exhausted ELSE msg.data

\* The poll result for a drained message (lines 101-103).
PollResult(msg) == IF msg.tag = "Done" THEN Exhausted ELSE msg.data

\* Receiver::poll, lines 100-104: try_consume and the match on its result.
Receiver_poll_consume ==
    /\ rpc = "consume"
    /\ LET r == try_consume(World)
       IN /\ Store(r.w)
          /\ IF r.ok
             THEN /\ received' = Append(received, PollResult(r.msg))
                  /\ lastR' = PollResult(r.msg).k
                  /\ rpc' = "idle"
             ELSE /\ rpc' = "register"
                  /\ UNCHANGED << received, lastR >>
    /\ UNCHANGED << receiver_gone, on_full_token, sender, fut, data, ppc,
                    resolved, failed, lastS, nsends, cancelled >>

\* Receiver::poll that reports NotReady without registering the wakeup.
Receiver_poll_register_missing ==
    /\ rpc = "register"
    /\ lastR' = "NotReady"
    /\ rpc' = "idle"
    /\ UNCHANGED << slot, callbacks, done_writes, rtask, stask, panicked,
                    on_full_token, receiver_gone, received, sender, fut, data,
                    ppc, resolved, failed, lastS, nsends, cancelled >>

\* Receiver::poll, lines 105-109: park, register the wakeup, NotReady.
Receiver_poll_register ==
    /\ rpc = "register"
    /\ LET r == on_full(World, "unpark_receiver")
       IN /\ Store(r.w)
          /\ on_full_token' = r.token
    /\ lastR' = "NotReady"
    /\ rpc' = "idle"
    /\ UNCHANGED << receiver_gone, received, sender, fut, data, ppc, resolved,
                    failed, lastS, nsends, cancelled >>

\* Receiver::drop that does not record the abandonment.
Receiver_drop_store_missing ==
    /\ rpc = "idle"
    /\ rpc' = "drop_cancel"
    /\ UNCHANGED << slot, callbacks, done_writes, on_full_token, rtask,
                    received, lastR, sender, fut, data, ppc, stask, resolved,
                    failed, lastS, panicked, nsends, cancelled, receiver_gone >>

\* Receiver::drop, line 117: set the abandonment flag.
Receiver_drop_store ==
    /\ rpc = "idle"
    /\ receiver_gone' = TRUE
    /\ rpc' = "drop_cancel"
    /\ UNCHANGED << slot, callbacks, done_writes, on_full_token, rtask, received, lastR,
                    sender, fut, data, ppc, stask, resolved, failed, lastS,
                    panicked, nsends, cancelled >>

\* Receiver::drop, lines 118-120: cancel the retained token.
Receiver_drop_cancel ==
    /\ rpc = "drop_cancel"
    /\ Store(cancel(World, on_full_token))
    /\ on_full_token' = NoToken
    /\ rpc' = "drop_register"
    /\ UNCHANGED << receiver_gone, received, lastR, sender, fut, data, ppc,
                    resolved, failed, lastS, nsends, cancelled >>

\* Receiver::drop, lines 121-123: register the drain-and-discard callback.
Receiver_drop_register ==
    /\ rpc = "drop_register"
    /\ Store(on_full(World, "drain").w)
    /\ rpc' = "dropped"
    /\ UNCHANGED << receiver_gone, on_full_token, received, lastR, sender, fut,
                    data, ppc, resolved, failed, lastS, nsends, cancelled >>

-----------------------------------------------------------------------------
(* Producer task *)

\* Sender::send: move the handle and the payload into a FutureSender.
Sender_send(p) ==
    /\ ppc = "idle"
    /\ panicked = "none"
    /\ sender = "caller"
    /\ ~fut.alive
    /\ nsends < MaxSends
    /\ fut' = [alive |-> TRUE, data |-> p, on_empty_token |-> NoToken, orig |-> p]
    /\ sender' = "future"
    /\ nsends' = nsends + 1
    /\ lastS' = "none"
    /\ UNCHANGED << slot, callbacks, done_writes, receiver_gone, on_full_token, rpc, rtask,
                    received, lastR, data, ppc, stask, resolved, failed,
                    panicked, cancelled >>

\* FutureSender::poll that tolerates a second poll: with the payload gone it
\* reports pending instead of panicking.
FutureSender_poll_take_lenient ==
    /\ ppc = "idle"
    /\ panicked = "none"
    /\ fut.alive
    /\ IF fut.data = NoData \/ sender # "future"
       THEN /\ lastS' = "NotReady"
            /\ UNCHANGED << slot, callbacks, done_writes, rtask, stask, fut, data, sender,
                            ppc, cancelled, panicked >>
       ELSE /\ Store([cancel(World, fut.on_empty_token) EXCEPT !.stask = FALSE])
            /\ cancelled' =
                  [by |-> "sender", token |-> TokenState(fut.on_empty_token)]
            /\ data' = fut.data
            /\ fut' = [fut EXCEPT !.data = NoData, !.on_empty_token = NoToken]
            /\ sender' = "poll"
            /\ ppc' = "load"
            /\ UNCHANGED lastS
    /\ UNCHANGED << receiver_gone, on_full_token, rpc, received, lastR,
                    resolved, failed, nsends >>

\* FutureSender::poll, lines 150-154: take data and sender (panic if they are
\* gone), cancel the retained token.
FutureSender_poll_take ==
    /\ ppc = "idle"
    /\ panicked = "none"
    /\ fut.alive
    /\ IF fut.data = NoData \/ sender # "future"
       THEN /\ panicked' = "cannot poll FutureSender twice"
            /\ lastS' = "panic"
            /\ UNCHANGED << slot, callbacks, done_writes, rtask, stask, fut, data, sender,
                            ppc, cancelled >>
       ELSE /\ Store([cancel(World, fut.on_empty_token) EXCEPT !.stask = FALSE])
            /\ cancelled' =
                  [by |-> "sender", token |-> TokenState(fut.on_empty_token)]
            /\ data' = fut.data
            /\ fut' = [fut EXCEPT !.data = NoData, !.on_empty_token = NoToken]
            /\ sender' = "poll"
            /\ ppc' = "load"
            /\ UNCHANGED lastS
    /\ UNCHANGED << receiver_gone, on_full_token, rpc, received, lastR,
                    resolved, failed, nsends >>

\* FutureSender::poll without the receiver_gone test.
FutureSender_poll_load_unchecked ==
    /\ ppc = "load"
    /\ ppc' = "produce"
    /\ UNCHANGED << slot, callbacks, done_writes, receiver_gone, on_full_token, rpc, rtask,
                    received, lastR, sender, fut, stask, resolved, panicked,
                    nsends, cancelled, failed, lastS, data >>

\* FutureSender::poll, lines 155-157: read the abandonment flag.
FutureSender_poll_load ==
    /\ ppc = "load"
    /\ IF receiver_gone
       THEN /\ failed' = Append(failed, << fut.orig, data >>)
            /\ lastS' = "SendError"
            /\ data' = NoData
            /\ ppc' = "drop_sender"
       ELSE /\ ppc' = "produce"
            /\ UNCHANGED << failed, lastS, data >>
    /\ UNCHANGED << slot, callbacks, done_writes, receiver_gone, on_full_token, rpc, rtask,
                    received, lastR, sender, fut, stask, resolved, panicked,
                    nsends, cancelled >>

\* FutureSender::poll that surfaces an occupied slot as a SendError.
FutureSender_poll_produce_failing ==
    /\ ppc = "produce"
    /\ LET r == try_produce(World, Data(data))
       IN /\ Store(r.w)
          /\ IF r.ok
             THEN /\ resolved' = Append(resolved, data)
                  /\ lastS' = "Ready"
                  /\ sender' = "caller"
                  /\ data' = NoData
                  /\ ppc' = "idle"
                  /\ UNCHANGED failed
             ELSE /\ failed' = Append(failed, << fut.orig, r.back.data >>)
                  /\ lastS' = "SendError"
                  /\ data' = NoData
                  /\ ppc' = "drop_sender"
                  /\ UNCHANGED << resolved, sender >>
    /\ UNCHANGED << receiver_gone, on_full_token, rpc, received, lastR, fut,
                    nsends, cancelled >>

\* FutureSender::poll with the Err arm of the match lost: the operation
\* resolves whether or not the slot took the message.
FutureSender_poll_produce_ignoring_full ==
    /\ ppc = "produce"
    /\ Store(try_produce(World, Data(data)).w)
    /\ resolved' = Append(resolved, data)
    /\ lastS' = "Ready"
    /\ sender' = "caller"
    /\ data' = NoData
    /\ ppc' = "idle"
    /\ UNCHANGED << receiver_gone, on_full_token, rpc, received, lastR, fut,
                    failed, nsends, cancelled >>

\* FutureSender::poll, lines 158-160: try_produce(Message::Data(data)).
FutureSender_poll_produce ==
    /\ ppc = "produce"
    /\ LET r == try_produce(World, Data(data))
       IN /\ Store(r.w)
          /\ IF r.ok
             THEN /\ resolved' = Append(resolved, data)
                  /\ lastS' = "Ready"
                  /\ sender' = "caller"
                  /\ data' = NoData
                  /\ ppc' = "idle"
             ELSE /\ data' = r.back.data
                  /\ ppc' = "register"
                  /\ UNCHANGED << resolved, lastS, sender >>
    /\ UNCHANGED << receiver_gone, on_full_token, rpc, received, lastR, fut,
                    failed, nsends, cancelled >>

\* FutureSender::poll that does not put the sender back on NotReady: the
\* local handle is dropped at the end of the poll.
FutureSender_poll_register_losing_sender ==
    /\ ppc = "register"
    /\ LET r == on_empty(World, "unpark_sender")
       IN /\ Store(r.w)
          /\ fut' = [fut EXCEPT !.on_empty_token = r.token, !.data = data]
    /\ data' = NoData
    /\ lastS' = "NotReady"
    /\ ppc' = "drop_sender"
    /\ UNCHANGED << receiver_gone, on_full_token, rpc, received, lastR,
                    resolved, failed, nsends, cancelled, sender >>

\* FutureSender::poll that reports NotReady without registering the wakeup.
FutureSender_poll_register_missing ==
    /\ ppc = "register"
    /\ fut' = [fut EXCEPT !.data = data]
    /\ data' = NoData
    /\ sender' = "future"
    /\ lastS' = "NotReady"
    /\ ppc' = "idle"
    /\ UNCHANGED << slot, callbacks, done_writes, rtask, stask, panicked,
                    receiver_gone, on_full_token, rpc, received, lastR,
                    resolved, failed, nsends, cancelled >>

\* FutureSender::poll, lines 161-171: park, register the wakeup, put data and
\* sender back, NotReady.
FutureSender_poll_register ==
    /\ ppc = "register"
    /\ LET r == on_empty(World, "unpark_sender")
       IN /\ Store(r.w)
          /\ fut' = [fut EXCEPT !.on_empty_token = r.token, !.data = data]
    /\ data' = NoData
    /\ sender' = "future"
    /\ lastS' = "NotReady"
    /\ ppc' = "idle"
    /\ UNCHANGED << receiver_gone, on_full_token, rpc, received, lastR,
                    resolved, failed, nsends, cancelled >>

\* FutureSender::drop that tries to deliver the payload it still holds.
FutureSender_drop_flushing ==
    /\ ppc = "idle"
    /\ fut.alive
    /\ LET w == IF fut.on_empty_token # NoToken /\ sender = "future"
                THEN cancel(World, fut.on_empty_token)
                ELSE World
       IN Store(IF fut.data # NoData THEN try_produce(w, Data(fut.data)).w
                ELSE w)
    /\ fut' = [alive |-> FALSE, data |-> NoData, on_empty_token |-> NoToken,
               orig |-> NoData]
    /\ ppc' = IF sender = "future" THEN "drop_sender" ELSE "idle"
    /\ UNCHANGED << receiver_gone, on_full_token, rpc, received, lastR, sender,
                    data, resolved, failed, lastS, nsends, cancelled >>

\* FutureSender::drop that leaves its registration behind.
FutureSender_drop_leaky ==
    /\ ppc = "idle"
    /\ fut.alive
    /\ fut' = [alive |-> FALSE, data |-> NoData, on_empty_token |-> NoToken,
               orig |-> NoData]
    /\ ppc' = IF sender = "future" THEN "drop_sender" ELSE "idle"
    /\ UNCHANGED << slot, callbacks, done_writes, rtask, stask, panicked, receiver_gone,
                    on_full_token, rpc, received, lastR, sender, data,
                    resolved, failed, lastS, nsends, cancelled >>

\* FutureSender::drop, lines 178-184: cancel the retained token if the sender
\* is still held; the Sender it holds is dropped next.
FutureSender_drop ==
    /\ ppc = "idle"
    /\ fut.alive
    /\ Store(IF fut.on_empty_token # NoToken /\ sender = "future"
             THEN cancel(World, fut.on_empty_token)
             ELSE World)
    /\ fut' = [alive |-> FALSE, data |-> NoData, on_empty_token |-> NoToken,
               orig |-> NoData]
    /\ ppc' = IF sender = "future" THEN "drop_sender" ELSE "idle"
    /\ UNCHANGED << receiver_gone, on_full_token, rpc, received, lastR, sender,
                    data, resolved, failed, lastS, nsends, cancelled >>

\* Sender::drop that writes Done on the spot instead of deferring the write
\* to the slot's next empty state.
Sender_drop_eager ==
    /\ \/ ppc = "idle" /\ sender = "caller"
       \/ ppc = "drop_sender"
    /\ Store(Call(World, [token |-> NoToken, kind |-> "empty", act |-> "done"]))
    /\ sender' = "dropped"
    /\ ppc' = "idle"
    /\ UNCHANGED << receiver_gone, on_full_token, rpc, received, lastR, fut,
                    data, resolved, failed, lastS, nsends, cancelled >>

\* Sender::drop that registers nothing: no Done is ever written.
Sender_drop_silent ==
    /\ \/ ppc = "idle" /\ sender = "caller"
       \/ ppc = "drop_sender"
    /\ sender' = "dropped"
    /\ ppc' = "idle"
    /\ UNCHANGED << slot, callbacks, done_writes, rtask, stask, panicked, receiver_gone,
                    on_full_token, rpc, received, lastR, fut, data, resolved,
                    failed, lastS, nsends, cancelled >>

\* Sender::drop, lines 138-142: register the deferred write of Done.  Runs when
\* the caller drops its handle, and when a FutureSender or a failed poll drops
\* the handle it holds.
Sender_drop ==
    /\ \/ ppc = "idle" /\ sender = "caller"
       \/ ppc = "drop_sender"
    /\ Store(on_empty(World, "done").w)
    /\ sender' = "dropped"
    /\ ppc' = "idle"
    /\ UNCHANGED << receiver_gone, on_full_token, rpc, received, lastR, fut,
                    data, resolved, failed, lastS, nsends, cancelled >>

-----------------------------------------------------------------------------
Next ==
    \/ Receiver_poll_cancel
    \/ Receiver_poll_consume
    \/ Receiver_poll_register
    \/ Receiver_drop_store
    \/ Receiver_drop_cancel
    \/ Receiver_drop_register
    \/ \E p \in Payloads : Sender_send(p)
    \/ FutureSender_poll_take
    \/ FutureSender_poll_load
    \/ FutureSender_poll_produce
    \/ FutureSender_poll_register
    \/ FutureSender_drop
    \/ Sender_drop

Spec == Init /\ [][Next]_vars

\* The consumer's caller polls again after a value or an error, and whenever
\* its task has been unparked (a new task is polled once to begin with).
ShouldPoll == rtask \/ lastR \in {"Ok", "Err"}

\* Spec with the scheduling the task system gives the consumer: a poll that
\* has begun runs to its end, and a consumer that should poll does.
LiveSpec ==
    /\ Spec
    /\ WF_vars(Receiver_poll_cancel /\ ShouldPoll)
    /\ WF_vars(Receiver_poll_consume)
    /\ WF_vars(Receiver_poll_register)

\* The current Send Operation has reported pending and is neither resolved
\* nor dropped.
Pending == fut.alive /\ lastS = "NotReady"

\* Spec with the scheduling the task system gives the producer: a poll that
\* has begun runs to its end, a pending Send Operation whose task has been
\* unparked is polled again, and a Receiver::drop that has begun runs to its
\* end.
SendLiveSpec ==
    /\ Spec
    /\ WF_vars(FutureSender_poll_take /\ stask /\ Pending)
    /\ WF_vars(FutureSender_poll_load)
    /\ WF_vars(FutureSender_poll_produce)
    /\ WF_vars(FutureSender_poll_register)
    /\ WF_vars(Receiver_drop_cancel)
    /\ WF_vars(Receiver_drop_register)

\* Shape of the state.
TypeOK ==
    /\ slot.tag \in {"Empty", "Data", "Done"}
    /\ receiver_gone \in BOOLEAN
    /\ rpc \in {"idle", "consume", "register", "drop_cancel", "drop_register",
                "dropped"}
    /\ ppc \in {"idle", "load", "produce", "register", "drop_sender"}
    /\ sender \in {"caller", "future", "poll", "dropped"}
    /\ Len(received) <= MaxSends + 1
    /\ Len(resolved) <= MaxSends
    /\ nsends <= MaxSends

-----------------------------------------------------------------------------
(* Properties *)

\* The consumer has not begun Receiver::drop.
ReceiverAlive == rpc \in {"idle", "consume", "register"}

\* The values and errors the receiver's polls returned, without exhaustion.
Delivered == SelectSeq(received, LAMBDA x : x # Exhausted)

IsPrefix(s, t) == Len(s) <= Len(t) /\ s = SubSeq(t, 1, Len(s))

\* C1: no loss, no duplication, FIFO.  What the receiver's polls returned is
\* always a prefix of the successfully resolved sends, in send order, and once
\* a poll has returned exhaustion the results are exactly the resolved sends
\* followed by exhaustion.
C1_NoLossNoDupFIFO ==
    /\ IsPrefix(Delivered, resolved)
    /\ (\E i \in 1..Len(received) : received[i] = Exhausted)
          => received = resolved \o << Exhausted >>

\* C1 witness: two sends resolved, both drained, then exhaustion.
C1_Witness ==
    /\ Len(resolved) = 2
    /\ resolved[1] # resolved[2]
    /\ received = resolved \o << Exhausted >>

\* C2: backpressure.  While the receiver is alive the resolved sends outrun
\* the drained Data messages by at most one, and a try_produce made while the
\* previous message is still in the slot does not resolve the operation: it
\* goes on to register the wakeup and report pending.
C2_Backpressure ==
    /\ [](ReceiverAlive => Len(resolved) - Len(Delivered) <= 1)
    /\ [][(ppc = "produce" /\ ppc' # "produce" /\ slot.tag # "Empty")
            => (resolved' = resolved /\ ppc' = "register" /\ slot' = slot)]_vars

\* C2 witness: the first message is undrained and the second Send Operation
\* has reported pending.
C2_Witness ==
    /\ ReceiverAlive
    /\ Len(resolved) = 1
    /\ received = << >>
    /\ slot = Data(resolved[1])
    /\ fut.alive /\ lastS = "NotReady" /\ ppc = "idle"

C4_EventualExhaustion ==
    (sender = "dropped") ~>
        ((received # << >> /\ received[Len(received)] = Exhausted)
         \/ ~ReceiverAlive)

\* C4 witness: the Sender was dropped after one send, and the receiver, still
\* alive, got the message and then exhaustion.
C4_Witness ==
    /\ sender = "dropped"
    /\ Len(received) = 2
    /\ received[2] = Exhausted
    /\ lastR = "Exhausted"
    /\ ReceiverAlive

\* C5: cancellation hygiene.  With no FutureSender alive the slot holds no
\* callback that unparks the producer, and once Receiver::drop has cancelled
\* its token the slot holds none that unparks the consumer; from then on the
\* dropped object's task is not signalled.
C5_CancellationHygiene ==
    /\ [](~fut.alive => \A c \in callbacks : c.act # "unpark_sender")
    /\ [](rpc \in {"drop_register", "dropped"}
            => \A c \in callbacks : c.act # "unpark_receiver")
    /\ [][(~fut.alive /\ ~fut'.alive /\ ~stask) => ~stask']_vars
    /\ [][(rpc \in {"drop_register", "dropped"} /\ ~rtask) => ~rtask']_vars

\* C5 witness: a Send Operation pending on an occupied slot was dropped, and
\* the receiver then drained the slot.
C5_Witness ==
    /\ ~fut.alive
    /\ lastS = "NotReady"
    /\ Len(resolved) = 1
    /\ received = resolved \o << Exhausted >>

\* C6: a poll of a resolved FutureSender panics.  After resolution payload and
\* handle are absent, and the only outcome a poll of it has is the panic
\* "cannot poll FutureSender twice", which leaves the slot, its callbacks, the
\* flag and the operation unchanged.
C6_PollTwicePanics ==
    /\ []((fut.alive /\ ppc = "idle" /\ lastS \in {"Ready", "SendError", "panic"})
            => (fut.data = NoData /\ sender # "future"
                /\ fut.on_empty_token = NoToken))
    /\ [][(fut.alive /\ ppc = "idle" /\ fut.data = NoData)
            => /\ ppc' \in {"idle", "drop_sender"}
               /\ lastS' # lastS
                    => /\ lastS' = "panic"
                       /\ panicked' = "cannot poll FutureSender twice"
                       /\ UNCHANGED << slot, callbacks, receiver_gone, fut,
                                       sender, resolved, failed >>]_vars

\* C6 witness: a FutureSender that had resolved Ok was polled again.
C6_Witness ==
    /\ panicked = "cannot poll FutureSender twice"
    /\ lastS = "panic"
    /\ Len(resolved) >= 1
    /\ fut.alive

\* C7: send-failed only on abandonment.  A poll returns SendError only with
\* receiver_gone set; while the receiver is alive a poll is pending or
\* resolved, and an occupied slot leads to pending.
C7_SendErrorOnlyWhenGone ==
    /\ [][failed' # failed => receiver_gone]_vars
    /\ [](ReceiverAlive
            => /\ failed = << >>
               /\ lastS \in {"none", "NotReady", "Ready", "panic"})

\* C7 witness: with the receiver alive and the slot occupied, a poll reported
\* pending after an earlier poll had already been pending.
C7_Witness ==
    /\ ReceiverAlive
    /\ slot.tag = "Data"
    /\ lastS = "NotReady"
    /\ cancelled.by = "sender" /\ cancelled.token # "none"
    /\ failed = << >>

\* C8: exhaustion is final.  Exhaustion is the last non-pending result of the
\* receiver: nothing follows it.
C8_ExhaustionFinal ==
    \A i \in 1..Len(received) : received[i] = Exhausted => i = Len(received)

\* C8 witness: after exhaustion the receiver was polled again and is pending.
C8_Witness ==
    /\ received # << >>
    /\ received[Len(received)] = Exhausted
    /\ lastR = "NotReady"
    /\ Len(received) = 3

\* C9: immediate termination on an empty mailbox.  Sender::drop on an empty
\* slot with the receiver alive writes Done at once; Done stays in the slot
\* until the receiver takes it, and the poll that takes it returns exhaustion.
C9_DoneAtOnce ==
    /\ [][(sender # "dropped" /\ sender' = "dropped" /\ slot = Empty
           /\ ReceiverAlive) => slot' = Done]_vars
    /\ [][(slot = Done /\ slot' # slot)
            => \/ rpc = "consume" /\ rpc' = "idle" /\ lastR' = "Exhausted"
                  /\ received' = Append(received, Exhausted)
               \/ rpc = "drop_register"]_vars

\* C9 witness: the Sender was dropped before any send and the first poll that
\* followed returned exhaustion.
C9_Witness ==
    /\ received = << Exhausted >>
    /\ nsends = 0
    /\ sender = "dropped"

\* C10: idempotent cancellation.  When a poll cancels a retained token whose
\* callback has already fired, nothing registered on the slot is removed and
\* nothing panics.
C10_StaleCancelNoOp ==
    [][(\/ /\ rpc = "idle" /\ rpc' = "consume"
           /\ on_full_token # NoToken /\ ~Registered(on_full_token)
        \/ /\ ppc = "idle" /\ ppc' = "load"
           /\ fut.on_empty_token # NoToken /\ ~Registered(fut.on_empty_token))
        => (callbacks' = callbacks /\ panicked' = panicked)]_vars

\* C10 witness: the receiver's poll has just cancelled a token that had fired
\* while the producer's wakeup is registered on the slot.
C10_Witness ==
    /\ rpc = "consume"
    /\ cancelled = [by |-> "receiver", token |-> "fired"]
    /\ \E c \in callbacks : c.act = "unpark_sender"

\* C11: the abandonment flag is monotonic.  It is false at creation and for as
\* long as Receiver::drop has not begun, it is set only by the first step of
\* Receiver::drop, and once true it stays true.
C11_FlagMonotonic ==
    /\ ~receiver_gone
    /\ [](ReceiverAlive <=> ~receiver_gone)
    /\ [][receiver_gone => receiver_gone']_vars
    /\ [][(~receiver_gone /\ receiver_gone')
            => (rpc = "idle" /\ rpc' = "drop_cancel")]_vars

\* C11 witness: the flag is still set after the drop has ended and a Send
\* Operation has failed on it.
C11_Witness ==
    /\ receiver_gone
    /\ rpc = "dropped"
    /\ failed # << >>
    /\ sender = "dropped"

\* The callbacks registered on the slot that run this closure.
Live(act) == { c \in callbacks : c.act = act }

\* C12: at most one live wakeup registration per endpoint.  The slot holds at
\* most one callback unparking the consumer and at most one unparking the
\* producer, each under the token its owner retains; inside a poll, after the
\* cancel and before the registration, it holds none of that endpoint.
C12_OneRegistration ==
    /\ Cardinality(Live("unpark_receiver")) <= 1
    /\ Cardinality(Live("unpark_sender")) <= 1
    /\ \A c \in Live("unpark_receiver") : c.token = on_full_token
    /\ \A c \in Live("unpark_sender") : c.token = fut.on_empty_token
    /\ rpc \in {"consume", "register"} => Live("unpark_receiver") = {}
    /\ ppc \in {"load", "produce", "register"} => Live("unpark_sender") = {}

\* C12 witness: a poll of the receiver that found its earlier registration
\* still live has cancelled it and registered again.
C12_Witness ==
    /\ cancelled = [by |-> "receiver", token |-> "live"]
    /\ rpc = "idle"
    /\ lastR = "NotReady"
    /\ Cardinality(Live("unpark_receiver")) = 1

\* C13: no missed wakeup on the receiving side.  After a poll of the receiver
\* has returned pending, either its task has been unparked, or the slot is
\* still empty and holds the wakeup, so that the try_produce that fills it,
\* before or after the registration, unparks the task.
C13_NoMissedWakeupReceiver ==
    /\ []((rpc = "idle" /\ lastR = "NotReady")
            => (rtask \/ (slot = Empty /\ Live("unpark_receiver") # {})))
    /\ [][(rpc = "idle" /\ lastR = "NotReady" /\ slot = Empty /\ slot' # Empty
           /\ rpc' = "idle") => rtask']_vars

\* C13 witness: the message was produced between the receiver's try_consume
\* and its on_full, or after it; the pending receiver's task is unparked and
\* its registration is spent.
C13_Witness ==
    /\ rpc = "idle"
    /\ lastR = "NotReady"
    /\ slot.tag = "Data"
    /\ rtask
    /\ on_full_token # NoToken
    /\ Live("unpark_receiver") = {}

\* C14: no missed wakeup on the sending side.  After a poll of the Send
\* Operation has returned pending, either its task has been unparked, or the
\* slot is still occupied and holds the wakeup; and once the receiver has
\* drained the slot or begun its drop, the operation, polled again when
\* unparked, resolves (Ready or SendError) unless it is dropped.
C14_NoMissedWakeupSender ==
    /\ []((ppc = "idle" /\ Pending)
            => (stask \/ (slot # Empty /\ Live("unpark_sender") # {})))
    /\ (Pending /\ (slot = Empty \/ ~ReceiverAlive)) ~> ~Pending

\* C14 witness: the receiver was dropped while the Send Operation was pending
\* on an occupied slot; the teardown drained the slot and unparked the task.
C14_Witness ==
    /\ ppc = "idle"
    /\ Pending
    /\ stask
    /\ slot = Empty
    /\ rpc = "dropped"
    /\ fut.on_empty_token # NoToken

\* C15: receiver teardown prevents a stuck-full mailbox.  Once Receiver::drop
\* has ended nothing but its teardown callback can take a message out of the
\* slot, and the callback runs at the latest in the step that fills the slot;
\* so no Data message may be in the slot after the drop has ended.
C15_NoStuckData ==
    rpc = "dropped" => slot.tag # "Data"

\* C16: application errors are transported transparently.  The poll that
\* drains a Data message returns exactly its payload, a value or an error;
\* draining an error leaves the abandonment flag as it is and puts no Done
\* into the slot unless the Sender's teardown had registered one, and every
\* error returned is the payload of the resolved send at its position, with
\* later sends delivered after it.
C16_ErrorsTransparent ==
    /\ [][(rpc = "consume" /\ rpc' # "consume" /\ slot.tag = "Data")
            => /\ received' = Append(received, slot.data)
               /\ lastR' = slot.data.k
               /\ rpc' = "idle"
               /\ receiver_gone' = receiver_gone
               /\ slot' # Empty
                    => (slot' = Done /\ Live("done") # {}
                        /\ sender = "dropped")]_vars
    /\ [](\A i \in 1..Len(received) :
            received[i].k = "Err"
                => (i <= Len(resolved) /\ received[i] = resolved[i]))

\* C16 witness: an error was sent and drained, then a value, with receiver
\* and Sender still there and no Done written.
C16_Witness ==
    /\ Len(received) = 2
    /\ received[1].k = "Err"
    /\ received[2].k = "Ok"
    /\ ~receiver_gone
    /\ sender = "caller"
    /\ done_writes = << >>

\* C17 as claimed: a Send Operation resolves only after the receiver has
\* drained its value, so every resolved send has been delivered.
C17_ResolvedOnlyAfterDrained ==
    Len(resolved) <= Len(Delivered)

\* C17 amended: a Send Operation resolves in the step in which the slot takes
\* its value, before any drain of it; with the receiver alive, what has been
\* drained by then is every value resolved before it.
C17_ResolvedAfterPreviousDrained ==
    [][(resolved' # resolved /\ ReceiverAlive)
        => /\ slot = Empty
           /\ Delivered = resolved
           /\ slot' = Data(resolved'[Len(resolved')])
           /\ received' = received]_vars

\* C17 witness: the second send has resolved after the receiver drained the
\* first value, and its own value is still in the slot.
C17_Witness ==
    /\ ReceiverAlive
    /\ Len(resolved) = 2
    /\ Delivered = << resolved[1] >>
    /\ slot = Data(resolved[2])
    /\ lastS = "Ready"

\* C18: the deferred Done write never fails.  No step raises the unwrap panic
\* of the Sender::drop callback; a registered callback leaves the slot only by
\* firing and writing Done, and Sender::drop itself either writes Done at once
\* into an empty slot or registers the callback on an occupied one.
C18_DoneWriteNeverFails ==
    /\ [](panicked # "unwrap on None")
    /\ [][(Live("done") # {} /\ Live("done")' = {})
            => /\ done_writes' = Append(done_writes, "deferred")
               /\ slot # Empty]_vars
    /\ [][(sender # "dropped" /\ sender' = "dropped")
            => \/ /\ slot = Empty
                  /\ done_writes' = Append(done_writes, "at_once")
               \/ /\ slot # Empty
                  /\ Live("done")' # {}
                  /\ done_writes' = done_writes]_vars

\* C18 witness: a pending FutureSender was dropped, the callback of its Sender
\* was registered behind the undrained message and has fired since.
C18_Witness ==
    /\ done_writes = << "deferred" >>
    /\ ~fut.alive
    /\ lastS = "NotReady"
    /\ panicked = "none"

\* C19: exhaustion only after the producer is gone.  Done is written at most
\* once; and whenever Done has been written or registered, or exhaustion
\* returned, the Sender has been dropped and no Send Operation holds a
\* payload.
C19_ExhaustionOnlyAfterSenderGone ==
    /\ Len(done_writes) <= 1
    /\ slot = Done => done_writes # << >>
    /\ (\/ done_writes # << >>
        \/ Live("done") # {}
        \/ slot = Done
        \/ \E i \in 1..Len(received) : received[i] = Exhausted)
          => /\ sender = "dropped"
             /\ ~(fut.alive /\ fut.data # NoData)
             /\ data = NoData
             /\ ppc = "idle"

\* C19 witness: exhaustion was returned after two resolved sends and a Done
\* written at once by the drop of the Sender.
C19_Witness ==
    /\ done_writes = << "at_once" >>
    /\ Len(resolved) = 2
    /\ received = resolved \o << Exhausted >>
    /\ slot = Empty

\* C20: dropping an unresolved Send Operation discards its payload.  The drop
\* leaves slot, resolved sends and results as they are and goes on to drop
\* the Sender it holds; a Data message in the slot is always the last resolved
\* send's; and once the Sender has been dropped, Done has been written or is
\* registered behind the message occupying the slot.
C20_DroppedPayloadDiscarded ==
    /\ [][(fut.alive /\ fut.data # NoData /\ ~fut'.alive)
            => /\ slot' = slot
               /\ resolved' = resolved
               /\ received' = received
               /\ ppc' = "drop_sender"]_vars
    /\ [](slot.tag = "Data"
            => (resolved # << >> /\ slot.data = resolved[Len(resolved)]))
    /\ [](sender = "dropped"
            => \/ Len(done_writes) = 1
               \/ slot.tag = "Data" /\ Live("done") # {})

\* C20 witness: the second Send Operation was dropped without being polled
\* while the first message was in the slot; the receiver got the first value
\* and then exhaustion, not the dropped payload.
C20_Witness ==
    /\ nsends = 2
    /\ lastS = "none"
    /\ ~fut.alive
    /\ Len(resolved) = 1
    /\ received = resolved \o << Exhausted >>
    /\ done_writes = << "deferred" >>

====
